---- MODULE Spec2Model ----
(***************************************************************************)
(* Model of pkg/smokescreen/config.go: the Config object, its setup        *)
(* operations (Init, SetupTls, SetupCrls), concurrent readers of           *)
(* Config.CrlByAuthorityKeyId and the default RoleFromRequest resolvers.   *)
(*                                                                         *)
(* Byte strings (key identifiers) are numbered: 0 is the empty byte        *)
(* string, 1 and 2 are distinct non-empty values.  Public keys are         *)
(* numbered from 1; a CRL records the key that produced its signature      *)
(* (0: no key validates it).  A file is modelled by what ReadFile returns  *)
(* for it at the moment the loop reads it.                                 *)
(***************************************************************************)
EXTENDS Integers, Sequences, FiniteSets, TLC

VARIABLES
    CrlByAuthorityKeyId,      \* Config.CrlByAuthorityKeyId  (Go map, may be nil)
    clientCasBySubjectKeyId,  \* Config.clientCasBySubjectKeyId (Go map, may be nil)
    TlsConfig,                \* Config.TlsConfig (pointer, may be nil)
    RoleFromRequest,          \* Config.RoleFromRequest: "nil" | "mtls" | "header"
    CidrBlacklist,            \* Config.CidrBlacklist ([]net.IPNet)
    CidrBlacklistExemptions,  \* Config.CidrBlacklistExemptions ([]net.IPNet)
    pc,                       \* "idle", "loop" (in the loop of SetupCrls) or
                              \* "tls" (in the loop of SetupTls)
    tlsCall,                  \* SetupTls in flight: len(clientCAFiles), loop index,
                              \* the local pool clientCAs
    nCrlFiles,                \* len(crlFiles) of the SetupCrls call in flight / last returned
    crlData,                  \* what ReadFile returned for crlFiles[1..], as far as read
    idx,                      \* index in crlFiles of the file the loop is at
    ret,                      \* last finished operation and its error
    panicked,                 \* the process died of a run-time panic
    logs,                     \* per-file diagnostics printed by the current reload
    warnings,                 \* key ids of the "no CRL loaded" warnings of the reload
    tableAtCall,              \* history: table when SetupCrls was called
    regAtCall,                \* history: registry when SetupCrls was called
    verifiedBy,               \* history: key id -> CA certificate that verified the entry
    obs,                      \* history: what a concurrent reader last saw
    caLoad,                   \* history: the last populateClientCaMap call (registry
                              \* before it, the blocks it scanned, what it returned)
    req,                      \* last request handed to RoleFromRequest
    result                    \* what RoleFromRequest returned for it

vars == << CrlByAuthorityKeyId, clientCasBySubjectKeyId, TlsConfig, RoleFromRequest,
           CidrBlacklist, CidrBlacklistExemptions,
           pc, tlsCall, nCrlFiles, crlData, idx, ret, panicked, logs, warnings,
           tableAtCall, regAtCall, verifiedBy, obs, caLoad, req, result >>

----------------------------------------------------------------------------
(* Bounds *)
MaxFiles == 3      \* longest crlFiles list
MaxCaFiles == 1    \* longest clientCAFiles list
MaxHeader == 2     \* most values of one request header
MaxPeers == 1      \* most peer certificates on a connection

----------------------------------------------------------------------------
(* Go maps: a nil flag and the key/value function *)
EmptyFcn == [k \in {} |-> 0]
NilMap == [isnil |-> TRUE, m |-> EmptyFcn]
MakeMap == [isnil |-> FALSE, m |-> EmptyFcn]
Has(map, k) == k \in DOMAIN map.m
Put(map, k, v) == [isnil |-> FALSE,
                   m |-> [x \in (DOMAIN map.m) \cup {k} |-> IF x = k THEN v ELSE map.m[x]]]
Keys(map) == DOMAIN map.m

RECURSIVE SeqsUpTo(_, _)
SeqsUpTo(S, n) ==
    IF n = 0 THEN {<<>>}
    ELSE LET shorter == SeqsUpTo(S, n - 1)
         IN shorter \cup {Append(s, x) : s \in {t \in shorter : Len(t) = n - 1}, x \in S}

----------------------------------------------------------------------------
(* Certificates and PEM bundles *)
certA == [ski |-> 1, key |-> 1]
certB == [ski |-> 2, key |-> 2]
certA2 == [ski |-> 1, key |-> 2]    \* same Subject Key Identifier as certA, other key

CertBlock(c) == [type |-> "CERTIFICATE", headers |-> FALSE, parses |-> TRUE, cert |-> c]
OtherBlock == [type |-> "PRIVATE KEY", headers |-> FALSE, parses |-> FALSE, cert |-> certA]
HeaderBlock == [type |-> "CERTIFICATE", headers |-> TRUE, parses |-> TRUE, cert |-> certB]
BadCertBlock == [type |-> "CERTIFICATE", headers |-> FALSE, parses |-> FALSE, cert |-> certB]

\* what ioutil.ReadFile returns for a CA bundle: the data (as PEM blocks) and the error
CaFiles ==
    { [err |-> TRUE, blocks |-> <<>>],
      [err |-> FALSE, blocks |-> <<CertBlock(certA)>>],
      [err |-> FALSE, blocks |-> <<OtherBlock, CertBlock(certB)>>],
      [err |-> FALSE, blocks |-> <<CertBlock(certA2)>>],
      [err |-> FALSE, blocks |-> <<CertBlock(certA), BadCertBlock, CertBlock(certA2)>>],
      [err |-> FALSE, blocks |-> <<HeaderBlock, BadCertBlock>>] }

----------------------------------------------------------------------------
(* CRL files: what ioutil.ReadFile returns for a path of crlFiles (the      *)
(* error, and the data as x509.ParseCRL and asn1.Unmarshal see it)         *)
extensionOid == <<2, 5, 29, 35>>
otherOid == <<2, 5, 29, 20>>

AkiExt(id) == [oid |-> extensionOid, decodes |-> TRUE, id |-> id]
BadAkiExt == [oid |-> extensionOid, decodes |-> FALSE, id |-> 0]
CrlNumberExt == [oid |-> otherOid, decodes |-> TRUE, id |-> 1]

Crl(exts, signer, n) ==
    [err |-> FALSE, parses |-> TRUE, exts |-> exts, signer |-> signer, n |-> n]
crlUnreadable == [err |-> TRUE, parses |-> FALSE, exts |-> <<>>, signer |-> 0, n |-> 0]
crlUnparsable == [err |-> FALSE, parses |-> FALSE, exts |-> <<>>, signer |-> 0, n |-> 0]
crlA1 == Crl(<<CrlNumberExt, AkiExt(1)>>, 1, 1)
crlA2 == Crl(<<AkiExt(1)>>, 1, 2)
crlABadSig == Crl(<<AkiExt(1)>>, 0, 3)
crlB == Crl(<<AkiExt(2)>>, 2, 1)
crlNoAki == Crl(<<CrlNumberExt>>, 1, 4)
crlBadAki == Crl(<<BadAkiExt>>, 1, 5)
crlEmptyAki == Crl(<<AkiExt(0)>>, 1, 6)

CrlFiles == { crlUnreadable, crlUnparsable, crlA1, crlA2, crlABadSig, crlB, crlNoAki }

\* files for the error returns of a reload
ErrCrlFiles == { crlUnreadable, crlNoAki }

\* files for the handling of the Authority Key Identifier extension
AkiCrlFiles == { crlUnreadable, crlA1, crlNoAki, crlBadAki, crlEmptyAki }

----------------------------------------------------------------------------
(* Requests *)
HeaderValues == {"", "payments-service"}     \* values of X-Smokescreen-Role
CommonNames == {"payments-service", "other"} \* Subject.CommonName of peer certificates
NoTls == [isnil |-> TRUE, PeerCertificates |-> <<>>]
Tls(peers) == [isnil |-> FALSE, PeerCertificates |-> peers]
Requests ==
    { [Header |-> h, TLS |-> t] :
        h \in SeqsUpTo(HeaderValues, MaxHeader),
        t \in {NoTls} \cup {Tls(p) : p \in SeqsUpTo(CommonNames, MaxPeers)} }
NoRequest == [Header |-> <<>>, TLS |-> NoTls]
\* requests for the error returns of the resolvers: one that fails under both
\* strategies, one that fails under the header strategy only, one that
\* succeeds under both
ErrRequests ==
    { [Header |-> <<>>, TLS |-> Tls(<<>>)],
      [Header |-> <<"payments-service", "payments-service">>, TLS |-> Tls(<<"other">>)],
      [Header |-> <<"payments-service">>, TLS |-> Tls(<<"payments-service">>)] }
NoResult == [role |-> "", err |-> "none", by |-> "nil"]

----------------------------------------------------------------------------
(* State after construction: the zero value of Config *)
NilTlsConfig == [isnil |-> TRUE, ClientAuth |-> "NoClientCert",
                 ClientCAsNil |-> TRUE, ClientCAs |-> {}]
NoObs == [seen |-> FALSE, inflight |-> FALSE, at |-> 0, tbl |-> EmptyFcn]
NoRet == [op |-> "none", err |-> "nil"]
NoTlsCall == [n |-> 0, i |-> 0, clientCAs |-> {}]
NoCaLoad == [called |-> FALSE, before |-> EmptyFcn, blocks |-> <<>>, ok |-> FALSE]

Init ==
    /\ CrlByAuthorityKeyId = NilMap
    /\ clientCasBySubjectKeyId = NilMap
    /\ TlsConfig = NilTlsConfig
    /\ RoleFromRequest = "nil"
    /\ CidrBlacklist = <<>>
    /\ CidrBlacklistExemptions = <<>>
    /\ pc = "idle"
    /\ tlsCall = NoTlsCall
    /\ nCrlFiles = 0
    /\ crlData = <<>>
    /\ idx = 0
    /\ ret = NoRet
    /\ panicked = FALSE
    /\ logs = <<>>
    /\ warnings = EmptyFcn
    /\ tableAtCall = EmptyFcn
    /\ regAtCall = EmptyFcn
    /\ verifiedBy = EmptyFcn
    /\ obs = NoObs
    /\ caLoad = NoCaLoad
    /\ req = NoRequest
    /\ result = NoResult

\* the call arguments and diagnostics of a finished reload are gone once
\* another operation starts
ForgetReload ==
    /\ nCrlFiles' = 0
    /\ crlData' = <<>>
    /\ idx' = 0
    /\ logs' = <<>>
    /\ warnings' = EmptyFcn
    /\ tableAtCall' = EmptyFcn
    /\ regAtCall' = EmptyFcn
    /\ obs' = NoObs
    /\ caLoad' = NoCaLoad

----------------------------------------------------------------------------
(* Config.Init *)
UsesClientCerts(tc) == ~tc.isnil /\ ~tc.ClientCAsNil

ConfigInit ==
    /\ ~panicked /\ pc = "idle"
    /\ CrlByAuthorityKeyId' =
          IF CrlByAuthorityKeyId.isnil THEN MakeMap ELSE CrlByAuthorityKeyId
    /\ clientCasBySubjectKeyId' =
          IF clientCasBySubjectKeyId.isnil THEN MakeMap ELSE clientCasBySubjectKeyId
    /\ RoleFromRequest' = IF UsesClientCerts(TlsConfig) THEN "mtls" ELSE "header"
    /\ ret' = [op |-> "Init", err |-> "nil"]
    /\ ForgetReload
    /\ UNCHANGED << CidrBlacklist, CidrBlacklistExemptions,
                    TlsConfig, pc, tlsCall, panicked, verifiedBy, req, result >>

----------------------------------------------------------------------------
(* The default resolvers installed by Config.Init *)
MissingRoleError == "MissingRole"

MtlsRole_PrefersHeader(r) ==
    IF r.TLS.isnil THEN [role |-> "", err |-> "panic"]
    ELSE IF Len(r.Header) = 1 THEN [role |-> r.Header[1], err |-> "nil"]
    ELSE IF Len(r.TLS.PeerCertificates) = 0
         THEN [role |-> "", err |-> MissingRoleError]
         ELSE [role |-> r.TLS.PeerCertificates[1], err |-> "nil"]

MtlsRole(r) ==
    IF r.TLS.isnil THEN [role |-> "", err |-> "panic"]
    ELSE IF Len(r.TLS.PeerCertificates) = 0
         THEN [role |-> "", err |-> MissingRoleError]
         ELSE [role |-> r.TLS.PeerCertificates[1], err |-> "nil"]

HeaderRole_TakesFirst(r) ==
    IF Len(r.Header) = 0
    THEN [role |-> "", err |-> MissingRoleError]
    ELSE [role |-> r.Header[1], err |-> "nil"]

HeaderRole(r) ==
    LET idHeader == r.Header
    IN IF Len(idHeader) = 0 THEN [role |-> "", err |-> MissingRoleError]
       ELSE IF Len(idHeader) > 1 THEN [role |-> "", err |-> MissingRoleError]
       ELSE [role |-> idHeader[1], err |-> "nil"]

CallRoleFromRequest(f, r) ==
    CASE f = "mtls" -> MtlsRole(r)
      [] f = "header" -> HeaderRole(r)
      [] OTHER -> [role |-> "", err |-> "panic"]    \* call of a nil func

\* a call of config.RoleFromRequest(r) for a request r of the given set
RequestFrom(requests) ==
    /\ ~panicked
    /\ \E r \in requests :
          LET out == CallRoleFromRequest(RoleFromRequest, r)
          IN /\ req' = r
             /\ result' = [role |-> out.role, err |-> out.err, by |-> RoleFromRequest]
             /\ panicked' = (out.err = "panic")
    /\ UNCHANGED << CidrBlacklist, CidrBlacklistExemptions,
                    CrlByAuthorityKeyId, clientCasBySubjectKeyId, TlsConfig,
                    RoleFromRequest, pc, tlsCall, nCrlFiles, crlData, idx, ret, logs,
                    warnings, tableAtCall, regAtCall, verifiedBy, obs, caLoad >>

Request == RequestFrom(Requests)

RequestErr == RequestFrom(ErrRequests)

----------------------------------------------------------------------------
(* parseRanges, Config.SetDenyRanges and Config.SetAllowRanges *)
Cidr(ip, bits) == [wellformed |-> TRUE, ip |-> ip, bits |-> bits]
NotCidr == [wellformed |-> FALSE, ip |-> <<0, 0, 0, 0>>, bits |-> 0]
\* the rangeStrings arguments: a list that parses and one that does not
RangeLists == { <<Cidr(<<10, 1, 2, 3>>, 12)>>,
                <<Cidr(<<10, 1, 2, 3>>, 12), NotCidr, Cidr(<<192, 168, 0, 0>>, 16)>> }

Pow2(n) == IF n = 0 THEN 1 ELSE IF n = 1 THEN 2 ELSE IF n = 2 THEN 4
           ELSE IF n = 3 THEN 8 ELSE IF n = 4 THEN 16 ELSE IF n = 5 THEN 32
           ELSE IF n = 6 THEN 64 ELSE IF n = 7 THEN 128 ELSE 256
\* the zero value of net.IPNet
ZeroIPNet == [IP |-> <<>>, Ones |-> 0]
\* net.ParseCIDR: the network of the address, i.e. the address under the mask
MaskOctet(v, keep) == (v \div Pow2(8 - keep)) * Pow2(8 - keep)
KeptBits(bits, i) ==
    IF bits >= 8 * i THEN 8 ELSE IF bits <= 8 * (i - 1) THEN 0 ELSE bits - 8 * (i - 1)
ParseCIDR(str) ==
    IF ~str.wellformed THEN [ipnet |-> ZeroIPNet, err |-> "parse"]
    ELSE [ipnet |-> [IP |-> [i \in 1..4 |-> MaskOctet(str.ip[i], KeptBits(str.bits, i))],
                     Ones |-> str.bits],
          err |-> "nil"]

RECURSIVE parseRangesFrom(_, _, _)
parseRangesFrom(rangeStrings, outRanges, i) ==
    IF i > Len(rangeStrings) THEN [ranges |-> outRanges, err |-> "nil"]
    ELSE LET p == ParseCIDR(rangeStrings[i])
         IN IF p.err # "nil" THEN [ranges |-> outRanges, err |-> p.err]
            ELSE parseRangesFrom(rangeStrings,
                                 [outRanges EXCEPT ![i] = p.ipnet], i + 1)

parseRanges(rangeStrings) ==
    parseRangesFrom(rangeStrings, [i \in 1..Len(rangeStrings) |-> ZeroIPNet], 1)

SetDenyRanges ==
    /\ ~panicked /\ pc = "idle"
    /\ \E rangeStrings \in RangeLists :
          LET out == parseRanges(rangeStrings)
          IN /\ CidrBlacklist' = out.ranges
             /\ ret' = [op |-> "SetDenyRanges", err |-> out.err]
    /\ ForgetReload
    /\ UNCHANGED << CrlByAuthorityKeyId, clientCasBySubjectKeyId, TlsConfig,
                    RoleFromRequest, CidrBlacklistExemptions, pc, tlsCall, panicked,
                    verifiedBy, req, result >>

SetAllowRanges ==
    /\ ~panicked /\ pc = "idle"
    /\ \E rangeStrings \in RangeLists :
          LET out == parseRanges(rangeStrings)
          IN /\ CidrBlacklistExemptions' = out.ranges
             /\ ret' = [op |-> "SetAllowRanges", err |-> out.err]
    /\ ForgetReload
    /\ UNCHANGED << CrlByAuthorityKeyId, clientCasBySubjectKeyId, TlsConfig,
                    RoleFromRequest, CidrBlacklist, pc, tlsCall, panicked,
                    verifiedBy, req, result >>

----------------------------------------------------------------------------
(* the dynamic type of an error value and IsMissingRoleError *)
ErrorType(err) ==
    CASE err = MissingRoleError -> "missingRoleError"  \* line 49
      [] err = "read" -> "*os.PathError"               \* ioutil.ReadFile
      [] err = "parse" -> "*net.ParseError"            \* net.ParseCIDR
      [] err = "args" -> "*errors.errorString"         \* errors.New, line 256
      [] err = "nocerts" -> "*errors.errorString"      \* fmt.Errorf (no %w), line 247
      [] err = "keypair" -> "*os.PathError"            \* tls.LoadX509KeyPair
      [] OTHER -> "nil"

IsMissingRoleError_AnyError(err) == ErrorType(err) # "nil"

IsMissingRoleError(err) == ErrorType(err) = "missingRoleError"

----------------------------------------------------------------------------
(* Config.populateClientCaMap, x509.CertPool.AppendCertsFromPEM,           *)
(* addCertsFromFile and Config.SetupTls                                    *)

\* the blocks pem.Decode yields that pass the type/header test and parse
IsUsableBlock(b) == b.type = "CERTIFICATE" /\ ~b.headers /\ b.parses

\* a scan that stops at the first block it cannot use
RECURSIVE populateClientCaMap_StopsAtBadBlock(_, _, _, _)
populateClientCaMap_StopsAtBadBlock(reg, blocks, i, ok) ==
    IF i > Len(blocks) THEN [reg |-> reg, ok |-> ok, panic |-> FALSE]
    ELSE IF ~IsUsableBlock(blocks[i]) THEN [reg |-> reg, ok |-> ok, panic |-> FALSE]
    ELSE IF reg.isnil THEN [reg |-> reg, ok |-> ok, panic |-> TRUE]
    ELSE populateClientCaMap_StopsAtBadBlock(Put(reg, blocks[i].cert.ski, blocks[i].cert),
                                             blocks, i + 1, TRUE)

\* scan from block i; an insertion into a nil map panics
RECURSIVE populateClientCaMap(_, _, _, _)
populateClientCaMap(reg, blocks, i, ok) ==
    IF i > Len(blocks) THEN [reg |-> reg, ok |-> ok, panic |-> FALSE]
    ELSE IF ~IsUsableBlock(blocks[i]) THEN populateClientCaMap(reg, blocks, i + 1, ok)
    ELSE IF reg.isnil THEN [reg |-> reg, ok |-> ok, panic |-> TRUE]
    ELSE populateClientCaMap(Put(reg, blocks[i].cert.ski, blocks[i].cert),
                             blocks, i + 1, TRUE)

AppendCertsFromPEM(pool, blocks) ==
    LET added == {blocks[i].cert : i \in {j \in 1..Len(blocks) : IsUsableBlock(blocks[j])}}
    IN [pool |-> pool \cup added, ok |-> added # {}]

addCertsFromFile(reg, pool, file) ==
    LET pop == populateClientCaMap(reg, file.blocks, 1, FALSE)
        app == AppendCertsFromPEM(pool, file.blocks)
    IN IF pop.panic THEN [reg |-> reg, pool |-> pool, err |-> "panic"]
       ELSE IF file.err THEN [reg |-> pop.reg, pool |-> pool, err |-> "read"]
       ELSE IF ~app.ok THEN [reg |-> pop.reg, pool |-> app.pool, err |-> "nocerts"]
       ELSE [reg |-> pop.reg, pool |-> app.pool, err |-> "nil"]

KeyPairs == {"empty", "unloadable", "ok"}

\* lines 254-266: the arguments are checked, the key pair loaded, and the
\* loop over clientCAFiles is entered with an empty pool
SetupTlsBegin ==
    /\ ~panicked /\ pc = "idle"
    /\ \E kp \in KeyPairs, n \in 0..MaxCaFiles :
          IF kp = "empty"
          THEN /\ ret' = [op |-> "SetupTls", err |-> "args"]
               /\ UNCHANGED << pc, tlsCall >>
          ELSE IF kp = "unloadable"
          THEN /\ ret' = [op |-> "SetupTls", err |-> "keypair"]
               /\ UNCHANGED << pc, tlsCall >>
          ELSE /\ ret' = [op |-> "SetupTls", err |-> "running"]
               /\ pc' = "tls"
               /\ tlsCall' = [n |-> n, i |-> 1, clientCAs |-> {}]
    /\ ForgetReload
    /\ UNCHANGED << CidrBlacklist, CidrBlacklistExemptions,
                    CrlByAuthorityKeyId, clientCasBySubjectKeyId, TlsConfig,
                    RoleFromRequest, panicked, verifiedBy, req, result >>

\* lines 269-274: one iteration, with what ReadFile returns for the file
SetupTlsFile ==
    /\ ~panicked /\ pc = "tls" /\ tlsCall.i <= tlsCall.n
    /\ \E file \in CaFiles :
          LET one == addCertsFromFile(clientCasBySubjectKeyId, tlsCall.clientCAs, file)
              pop == populateClientCaMap(clientCasBySubjectKeyId, file.blocks, 1, FALSE)
          IN /\ clientCasBySubjectKeyId' = one.reg
             /\ panicked' = (one.err = "panic")
             /\ caLoad' = IF pop.panic THEN NoCaLoad
                          ELSE [called |-> TRUE, before |-> clientCasBySubjectKeyId.m,
                                blocks |-> file.blocks, ok |-> pop.ok]
             /\ IF one.err = "nil"
                THEN /\ tlsCall' = [tlsCall EXCEPT !.i = @ + 1, !.clientCAs = one.pool]
                     /\ UNCHANGED << pc, ret >>
                ELSE IF one.err = "panic"
                THEN UNCHANGED << pc, ret, tlsCall >>
                ELSE /\ pc' = "idle"
                     /\ ret' = [op |-> "SetupTls", err |-> one.err]
                     /\ tlsCall' = NoTlsCall
    /\ UNCHANGED << CidrBlacklist, CidrBlacklistExemptions,
                    CrlByAuthorityKeyId, TlsConfig, RoleFromRequest, nCrlFiles, crlData,
                    idx, logs, warnings, tableAtCall, regAtCall, verifiedBy, obs,
                    req, result >>

SetupTlsEnd_ReselectsRole ==
    /\ ~panicked /\ pc = "tls" /\ tlsCall.i > tlsCall.n
    /\ TlsConfig' = [isnil |-> FALSE,
                     ClientAuth |-> IF tlsCall.n # 0 THEN "VerifyClientCertIfGiven"
                                    ELSE "NoClientCert",
                     ClientCAsNil |-> FALSE,
                     ClientCAs |-> tlsCall.clientCAs]
    /\ RoleFromRequest' = "mtls"
    /\ pc' = "idle"
    /\ ret' = [op |-> "SetupTls", err |-> "nil"]
    /\ tlsCall' = NoTlsCall
    /\ UNCHANGED << CidrBlacklist, CidrBlacklistExemptions,
                    CrlByAuthorityKeyId, clientCasBySubjectKeyId,
                    nCrlFiles, crlData, idx, panicked, logs, warnings, tableAtCall,
                    regAtCall, verifiedBy, obs, caLoad, req, result >>

\* lines 277-283
SetupTlsEnd ==
    /\ ~panicked /\ pc = "tls" /\ tlsCall.i > tlsCall.n
    /\ TlsConfig' = [isnil |-> FALSE,
                     ClientAuth |-> IF tlsCall.n # 0 THEN "VerifyClientCertIfGiven"
                                    ELSE "NoClientCert",
                     ClientCAsNil |-> FALSE,
                     ClientCAs |-> tlsCall.clientCAs]
    /\ pc' = "idle"
    /\ ret' = [op |-> "SetupTls", err |-> "nil"]
    /\ tlsCall' = NoTlsCall
    /\ UNCHANGED << CidrBlacklist, CidrBlacklistExemptions,
                    CrlByAuthorityKeyId, clientCasBySubjectKeyId, RoleFromRequest,
                    nCrlFiles, crlData, idx, panicked, logs, warnings, tableAtCall,
                    regAtCall, verifiedBy, obs, caLoad, req, result >>

----------------------------------------------------------------------------
(* Config.SetupCrls *)

\* lines 147-161: the first extension with OID 2.5.29.35 whose value decodes
RECURSIVE crlIssuerId(_, _)
crlIssuerId(exts, i) ==
    IF i > Len(exts) THEN 0
    ELSE IF exts[i].oid = extensionOid /\ exts[i].decodes THEN exts[i].id
    ELSE crlIssuerId(exts, i + 1)

CheckCRLSignature(caCert, certList) == certList.signer = caCert.key

\* line 133
ResetRegistry_Keeps(old) == old

ResetRegistry(old) == MakeMap

\* what the loop body does with one file, given the registry it consults
FileOutcome_NoValidation(reg, f) ==
    IF f.err THEN "readerr"
    ELSE IF ~f.parses THEN "panic"
    ELSE IF crlIssuerId(f.exts, 1) = 0 THEN "noaki"
    ELSE "install"

FileOutcome_AbortsWithoutAki(reg, f) ==
    IF f.err THEN "readerr"
    ELSE IF ~f.parses THEN "panic"
    ELSE IF crlIssuerId(f.exts, 1) = 0 THEN "readerr"
    ELSE IF ~Has(reg, crlIssuerId(f.exts, 1)) THEN "unbound"
    ELSE IF ~CheckCRLSignature(reg.m[crlIssuerId(f.exts, 1)], f) THEN "badsig"
    ELSE "install"

FileOutcome_AbortsOnSkip(reg, f) ==
    IF f.err THEN "readerr"
    ELSE IF ~f.parses THEN "panic"
    ELSE IF crlIssuerId(f.exts, 1) = 0 THEN "noaki"
    ELSE IF ~Has(reg, crlIssuerId(f.exts, 1)) THEN "readerr"
    ELSE IF ~CheckCRLSignature(reg.m[crlIssuerId(f.exts, 1)], f) THEN "readerr"
    ELSE "install"

FileOutcome(reg, f) ==
    IF f.err THEN "readerr"                                  \* line 137
    ELSE IF ~f.parses THEN "panic"                           \* lines 142, 149
    ELSE IF crlIssuerId(f.exts, 1) = 0 THEN "noaki"          \* line 162
    ELSE IF ~Has(reg, crlIssuerId(f.exts, 1)) THEN "unbound" \* line 170
    ELSE IF ~CheckCRLSignature(reg.m[crlIssuerId(f.exts, 1)], f)
         THEN "badsig"                                       \* line 178
    ELSE "install"                                           \* line 184

SetupCrlsBegin ==
    /\ ~panicked /\ pc = "idle"
    /\ \E n \in 0..MaxFiles : nCrlFiles' = n
    /\ crlData' = <<>>
    /\ tableAtCall' = CrlByAuthorityKeyId.m
    /\ regAtCall' = clientCasBySubjectKeyId.m
    /\ CrlByAuthorityKeyId' = MakeMap
    /\ clientCasBySubjectKeyId' = ResetRegistry(clientCasBySubjectKeyId)
    /\ verifiedBy' = EmptyFcn
    /\ pc' = "loop"
    /\ idx' = 1
    /\ logs' = <<>>
    /\ warnings' = EmptyFcn
    /\ obs' = NoObs
    /\ caLoad' = NoCaLoad
    /\ ret' = [op |-> "SetupCrls", err |-> "running"]
    /\ UNCHANGED << CidrBlacklist, CidrBlacklistExemptions,
                    TlsConfig, RoleFromRequest, tlsCall, panicked, req, result >>

\* lines 135-186: one iteration, with what ReadFile returns for the file
SetupCrlsFileFrom(files) ==
    /\ ~panicked /\ pc = "loop" /\ idx <= nCrlFiles
    /\ \E f \in files :                          \* ioutil.ReadFile(crlFile)
       LET out == FileOutcome(clientCasBySubjectKeyId, f)
           id == crlIssuerId(f.exts, 1)
       IN /\ crlData' = Append(crlData, f)
          /\ logs' = Append(logs, out)
          /\ panicked' = (out = "panic")
          /\ pc' = IF out = "readerr" THEN "idle" ELSE pc
          /\ ret' = IF out = "readerr" THEN [op |-> "SetupCrls", err |-> "read"] ELSE ret
          /\ idx' = IF out \in {"readerr", "panic"} THEN idx ELSE idx + 1
          /\ CrlByAuthorityKeyId' =
                IF out = "install" THEN Put(CrlByAuthorityKeyId, id, f)
                ELSE CrlByAuthorityKeyId
          /\ verifiedBy' =
                IF out = "install"
                THEN [k \in (DOMAIN verifiedBy) \cup {id} |->
                         IF k = id
                         THEN (IF Has(clientCasBySubjectKeyId, id)
                               THEN {clientCasBySubjectKeyId.m[id]} ELSE {})
                         ELSE verifiedBy[k]]
                ELSE verifiedBy
    /\ UNCHANGED << CidrBlacklist, CidrBlacklistExemptions,
                    clientCasBySubjectKeyId, TlsConfig, RoleFromRequest, tlsCall,
                    nCrlFiles, warnings, tableAtCall, regAtCall, obs, caLoad, req, result >>

SetupCrlsFile == SetupCrlsFileFrom(CrlFiles)

SetupCrlsFileAki == SetupCrlsFileFrom(AkiCrlFiles)

SetupCrlsFileErr == SetupCrlsFileFrom(ErrCrlFiles)

\* lines 188-195
MissingCrlWarnings(reg, table) == [k \in Keys(reg) \ Keys(table) |-> 1]

SetupCrlsEnd ==
    /\ ~panicked /\ pc = "loop" /\ idx > nCrlFiles
    /\ warnings' = MissingCrlWarnings(clientCasBySubjectKeyId, CrlByAuthorityKeyId)
    /\ pc' = "idle"
    /\ ret' = [op |-> "SetupCrls", err |-> "nil"]
    /\ UNCHANGED << CidrBlacklist, CidrBlacklistExemptions,
                    CrlByAuthorityKeyId, clientCasBySubjectKeyId, TlsConfig,
                    RoleFromRequest, tlsCall, nCrlFiles, crlData, idx, panicked, logs,
                    tableAtCall, regAtCall, verifiedBy, obs, caLoad, req, result >>

\* a request handler looking at Config.CrlByAuthorityKeyId
ReadTable ==
    /\ ~panicked
    /\ obs' = [seen |-> TRUE, inflight |-> (pc = "loop"), at |-> idx,
               tbl |-> CrlByAuthorityKeyId.m]
    /\ UNCHANGED << CidrBlacklist, CidrBlacklistExemptions,
                    CrlByAuthorityKeyId, clientCasBySubjectKeyId, TlsConfig,
                    RoleFromRequest, pc, tlsCall, nCrlFiles, crlData, idx, ret, panicked,
                    logs, warnings, tableAtCall, regAtCall, verifiedBy, caLoad, req, result >>

----------------------------------------------------------------------------
(* Specifications *)

\* setup operations and reloads, with concurrent readers of the table
Next == ConfigInit \/ SetupTlsBegin \/ SetupTlsFile \/ SetupTlsEnd
           \/ SetupCrlsBegin \/ SetupCrlsFile \/ SetupCrlsEnd
           \/ ReadTable

Spec == Init /\ [][Next]_vars

\* setup operations and request-time identity resolution
NextRole == ConfigInit \/ SetupTlsBegin \/ SetupTlsFile \/ SetupTlsEnd \/ Request

SpecRole == Init /\ [][NextRole]_vars

\* setup operations and reloads over the files of AkiCrlFiles
NextAki == ConfigInit \/ SetupTlsBegin \/ SetupTlsFile \/ SetupTlsEnd
              \/ SetupCrlsBegin \/ SetupCrlsFileAki \/ SetupCrlsEnd

SpecAki == Init /\ [][NextAki]_vars

\* every operation that returns an error, over the files of ErrCrlFiles
NextErr == ConfigInit \/ SetupTlsBegin \/ SetupTlsFile \/ SetupTlsEnd
              \/ SetupCrlsBegin \/ SetupCrlsFileErr \/ SetupCrlsEnd
              \/ SetDenyRanges \/ SetAllowRanges \/ RequestErr

SpecErr == Init /\ [][NextErr]_vars

----------------------------------------------------------------------------
(* Vocabulary of the properties *)
Table == CrlByAuthorityKeyId.m
Registry == clientCasBySubjectKeyId.m

ReloadReturned == pc = "idle" /\ ret.op = "SetupCrls"
ReloadCompleted == ReloadReturned /\ ret.err = "nil"

IssuerOf(f) == crlIssuerId(f.exts, 1)
IsCrl(f) == ~f.err /\ f.parses
\* f declares an authority of registry contents r and that authority's key signed it
ValidFor(r, f) ==
    /\ IsCrl(f) /\ IssuerOf(f) # 0 /\ IssuerOf(f) \in DOMAIN r
    /\ f.signer = r[IssuerOf(f)].key
\* f declares an authority of r, whose key did not sign it
BadSignatureFor(r, f) ==
    /\ IsCrl(f) /\ IssuerOf(f) # 0 /\ IssuerOf(f) \in DOMAIN r
    /\ f.signer # r[IssuerOf(f)].key
\* f declares an authority that r does not hold
UnboundIn(r, f) == IsCrl(f) /\ IssuerOf(f) # 0 /\ IssuerOf(f) \notin DOMAIN r
InstalledAt(i) ==
    /\ IssuerOf(crlData[i]) \in DOMAIN Table
    /\ Table[IssuerOf(crlData[i])] = crlData[i]

----------------------------------------------------------------------------
\* C1: a reader that looked at the table while a reload was in flight saw
\* either the table from before the reload or the table the reload ended
\* up with, never something in between.
C1_ReadersSeeOldOrNew ==
    (ReloadReturned /\ obs.seen /\ obs.inflight)
        => (obs.tbl = tableAtCall \/ obs.tbl = Table)

\* a reader looked mid-loop, after a CRL that is valid for an authority
\* registered at the call had been processed and before the last file was
C1_Witness ==
    /\ ReloadCompleted /\ obs.seen /\ obs.inflight
    /\ obs.at <= nCrlFiles
    /\ \E i \in 1..Len(crlData) : i < obs.at /\ ValidFor(regAtCall, crlData[i])

\* C2: after the reload returns, every CRL of the list that is valid for an
\* authority registered when the reload was called has an entry under that
\* authority's key id.
C2_ValidCrlInstalled ==
    ReloadReturned =>
        \A i \in 1..Len(crlData) :
            ValidFor(regAtCall, crlData[i]) => IssuerOf(crlData[i]) \in DOMAIN Table

\* C3: every entry under key k declares k as its authority key id and was
\* verified with the key of the registry's certificate for k; a CRL that
\* failed binding or signature verification is not in the table.
C3_OnlyValidatedEntries ==
    /\ \A k \in DOMAIN Table :
          /\ IssuerOf(Table[k]) = k
          /\ k \in DOMAIN verifiedBy
          /\ verifiedBy[k] # {}
          /\ \A ca \in verifiedBy[k] : ca.ski = k /\ Table[k].signer = ca.key
    /\ \A i \in 1..Len(crlData) :
          (UnboundIn(Registry, crlData[i]) \/ BadSignatureFor(Registry, crlData[i]))
              => ~InstalledAt(i)

C3_Witness ==
    /\ ReloadCompleted
    /\ \E i \in 1..Len(crlData) : UnboundIn(Registry, crlData[i]) /\ ~InstalledAt(i)
    /\ \E j \in 1..Len(crlData) : IsCrl(crlData[j]) /\ crlData[j].signer = 0

\* C4: a reload that returns a read error leaves readers with the table
\* that was there when the reload was called.
C4_ReadFailureKeepsTable ==
    (ReloadReturned /\ ret.err = "read") => Table = tableAtCall

\* the read failed after a CRL valid for a registered authority was processed
C4_Witness ==
    /\ ReloadReturned /\ ret.err = "read"
    /\ \E i \in 1..Len(crlData) : i < idx /\ ValidFor(regAtCall, crlData[i])

\* C5: every authority in the registry when the reload was called is in it,
\* under the same key, when the reload has returned.
C5_RegistryUnchanged ==
    ReloadReturned =>
        \A k \in DOMAIN regAtCall : k \in DOMAIN Registry /\ Registry[k] = regAtCall[k]

\* C6: a reload that processed all its files warned exactly once about each
\* loaded authority without an entry in the new table, and not at all about
\* an authority with one.
C6_OneWarningPerMissingCrl ==
    ReloadCompleted =>
        \A k \in DOMAIN regAtCall :
            IF k \in DOMAIN Table
            THEN k \notin DOMAIN warnings
            ELSE k \in DOMAIN warnings /\ warnings[k] = 1

\* C7 as stated: once a reload that met a CRL of an unregistered authority
\* has returned, that CRL is not installed, every file of the list was
\* processed and no error was returned.
C7_AsStated ==
    ReloadReturned =>
        \A i \in 1..Len(crlData) :
            UnboundIn(Registry, crlData[i])
                => /\ ~InstalledAt(i)
                   /\ Len(crlData) = nCrlFiles
                   /\ ret.err = "nil"

\* C7 amended: a CRL of an unregistered authority is not installed and the
\* reload does not stop at it: the loop moves on to the file after it.
C7_UnboundSkipped ==
    \A i \in 1..Len(crlData) :
        UnboundIn(Registry, crlData[i]) => ~InstalledAt(i) /\ i < idx

C7_Witness ==
    /\ ReloadCompleted
    /\ \E i \in 1..Len(crlData) : UnboundIn(Registry, crlData[i]) /\ i < Len(crlData)

\* C8 as stated: once a reload that met a CRL of a registered authority with
\* a bad signature has returned, that CRL is not installed and every file
\* of the list was processed.
C8_AsStated ==
    ReloadReturned =>
        \A i \in 1..Len(crlData) :
            BadSignatureFor(regAtCall, crlData[i])
                => ~InstalledAt(i) /\ Len(crlData) = nCrlFiles

\* C8 amended: a CRL of a registered authority with a bad signature is not
\* installed (the table holds no entry made from it) and the reload does
\* not stop at it: the loop moves on to the file after it.
C8_BadSignatureSkipped ==
    \A i \in 1..Len(crlData) :
        BadSignatureFor(regAtCall, crlData[i]) => ~InstalledAt(i) /\ i < idx

C8_Witness ==
    /\ ReloadCompleted
    /\ \E i \in 1..Len(crlData) :
          BadSignatureFor(regAtCall, crlData[i]) /\ i < Len(crlData)

\* C9: when two valid CRLs of the list are bound to the same registered
\* authority, the table of the completed reload holds the later one.
C9_LaterFileWins ==
    ReloadCompleted =>
        \A i, j \in 1..Len(crlData) :
            ( /\ i < j
              /\ ValidFor(regAtCall, crlData[i]) /\ ValidFor(regAtCall, crlData[j])
              /\ IssuerOf(crlData[i]) = IssuerOf(crlData[j])
              /\ \A l \in (j + 1)..Len(crlData) :
                    ~(ValidFor(regAtCall, crlData[l])
                        /\ IssuerOf(crlData[l]) = IssuerOf(crlData[j])) )
            => InstalledAt(j)

\* C10: the header resolver returns the header's value and no error when
\* the header has exactly one value, and a MissingRole error with no role
\* when it has none or several.
C10_HeaderStrategy ==
    result.by = "header" =>
        IF Len(req.Header) = 1
        THEN result.role = req.Header[1] /\ result.err = "nil"
        ELSE result.role = "" /\ result.err = MissingRoleError

\* the header was sent twice with the same non-empty value
C10_Witness ==
    /\ result.by = "header"
    /\ Len(req.Header) = 2 /\ req.Header[1] = req.Header[2] /\ req.Header[1] # ""
    /\ result.err = MissingRoleError


ClientCAFilesGiven == ~TlsConfig.isnil /\ TlsConfig.ClientAuth = "VerifyClientCertIfGiven"

C12_MtlsIffClientCAs ==
    (pc = "idle" /\ ret.op = "Init") => (RoleFromRequest = "mtls" <=> ClientCAFilesGiven)

\* C13 as stated: once a strategy is chosen no step changes it.
C13_AsStated == [][RoleFromRequest # "nil" => RoleFromRequest' = RoleFromRequest]_vars

\* C13 amended: only Init selects the strategy; every step of SetupTls, of
\* SetupCrls and of a reader leaves RoleFromRequest as it is.
C13_OnlyInitSelects == [][ConfigInit \/ RoleFromRequest' = RoleFromRequest]_vars

\* the header strategy is still in place after SetupTls configured a client
\* trust pool and a reload completed
C13_Witness ==
    /\ RoleFromRequest = "header"
    /\ UsesClientCerts(TlsConfig)
    /\ ReloadCompleted


\* a PEM block that is a certificate: type CERTIFICATE, no headers, parses
IsCertificate(b) == b.type = "CERTIFICATE" /\ ~b.headers /\ b.parses
CertificatesOf(blocks) == {i \in 1..Len(blocks) : IsCertificate(blocks[i])}
\* the last certificate of the bundle with the Subject Key Identifier k
LastWithSki(blocks, k) ==
    LET same == {i \in CertificatesOf(blocks) : blocks[i].cert.ski = k}
    IN blocks[CHOOSE i \in same : \A j \in same : j <= i].cert

C16_UnparsableSkipped ==
    \A i \in 1..Len(crlData) :
        (~crlData[i].err /\ ~crlData[i].parses) => (i < idx /\ ~panicked)

\* the Authority Key Identifier extensions of a CRL
AkiExtensions(f) == {i \in 1..Len(f.exts) : f.exts[i].oid = extensionOid}
\* no such extension, none that decodes, or an empty key id in the first
\* one that decodes
DeclaresNoIssuer(f) ==
    LET decoded == {i \in AkiExtensions(f) : f.exts[i].decodes}
    IN \/ AkiExtensions(f) = {}
       \/ decoded = {}
       \/ f.exts[CHOOSE i \in decoded : \A j \in decoded : i <= j].id = 0

\* C17: a parsed CRL without Authority Key Identifier extension, with one
\* that does not decode, or with an empty key id is not in the table, and
\* the reload goes on to the file after it.
C17_NoIssuerSkipped ==
    \A i \in 1..Len(crlData) :
        (IsCrl(crlData[i]) /\ DeclaresNoIssuer(crlData[i]))
            => /\ \A k \in DOMAIN Table : Table[k] # crlData[i]
               /\ i < idx

\* a completed reload met a CRL of each of the three kinds
C17_Witness ==
    /\ ReloadCompleted
    /\ \E i \in 1..Len(crlData) : IsCrl(crlData[i]) /\ AkiExtensions(crlData[i]) = {}
    /\ \E i \in 1..Len(crlData) :
          /\ AkiExtensions(crlData[i]) # {}
          /\ \A e \in AkiExtensions(crlData[i]) : ~crlData[i].exts[e].decodes
    /\ \E i \in 1..Len(crlData) :
          \E e \in AkiExtensions(crlData[i]) :
              crlData[i].exts[e].decodes /\ crlData[i].exts[e].id = 0

\* C18: under either strategy every call of the resolver returns a role or
\* a MissingRole error (with no role); it does not panic.
C18_ResolverTotal ==
    result.by \in {"mtls", "header"} =>
        \/ result.err = "nil"
        \/ result.err = MissingRoleError /\ result.role = ""

\* C19: after a successful SetupTls or SetupCrls, every certificate of the
\* active trust pool has a registry entry under its Subject Key Identifier
\* and every certificate of the registry is in the active trust pool.
C19_RegistryMatchesPool ==
    (pc = "idle" /\ ret.op \in {"SetupTls", "SetupCrls"} /\ ret.err = "nil"
        /\ ~TlsConfig.isnil)
    => /\ \A c \in TlsConfig.ClientCAs : c.ski \in DOMAIN Registry
       /\ \A k \in DOMAIN Registry : Registry[k] \in TlsConfig.ClientCAs

\* C20: SetupTls does not die in the loop over the client CA files,
\* whatever was called before it.
C20_SetupTlsCompletes == pc = "tls" => ~panicked


\* C15: every failure of the resolver satisfies IsMissingRoleError and no
\* error returned by SetupCrls, SetupTls, SetDenyRanges or SetAllowRanges does.
C15_MissingRoleDistinct ==
    /\ (result.by \in {"mtls", "header"} /\ result.err \notin {"nil", "panic"})
           => IsMissingRoleError(result.err)
    /\ (pc = "idle" /\ ret.err # "nil") => ~IsMissingRoleError(ret.err)

\* a resolver failure is on record next to the error of another operation
C15_Witness ==
    /\ result.by \in {"mtls", "header"} /\ IsMissingRoleError(result.err)
    /\ pc = "idle" /\ ret.op \in {"SetDenyRanges", "SetAllowRanges"}
    /\ ret.err # "nil" /\ ~IsMissingRoleError(ret.err)

====
